---- MODULE Spec2Model ----
(***************************************************************************)
(* Model of the OllamaService request gateway (services/ollamaService.js): *)
(* the bounded-concurrency request queue (queueRequest, executeRequest,    *)
(* processQueue) and the classifyImage unit of work that runs through it.  *)
(*                                                                         *)
(* Node.js runs each synchronous stretch of code to completion, so every   *)
(* action below is one such stretch: a queueRequest call, the resumption   *)
(* of executeRequest after its await, the arrival of an HTTP response.     *)
(***************************************************************************)
EXTENDS Integers, Sequences, FiniteSets, TLC

\* ------------------------------------------------------------------ bounds
MaxSubmissions == 5      \* queueRequest calls explored by Spec
MaxFairSubmissions == 3  \* queueRequest calls explored by FairSpec
MaxClassify == 2         \* classifyImage calls explored by SpecClassify
MaxEndpoint == 3         \* POST /api/classify requests explored by SpecEndpoint
MaxDrainSubmissions == 4  \* queueRequest calls per small configuration in SpecDrain
MaxGenerate == 1          \* classifyImage calls explored by SpecGenerate
MaxTimers == 2            \* classifyImage calls explored by SpecTimers
MaxStatusSubmissions == 2 \* queueRequest calls explored by SpecStatus
MaxStatusCalls == 1      \* getStatus calls explored by SpecStatus
MaxBurst == 16           \* queueRequest calls explored by SpecBurst
MaxConcurrentEnv == 2    \* largest OLLAMA_MAX_CONCURRENT explored by Spec
MaxQueueEnv == 2         \* largest OLLAMA_MAX_QUEUE_SIZE explored by Spec
TickMs == 15000          \* clock advance of one Tick step, in ms
MaxNow == 60000          \* the clock stops advancing here

\* -------------------------------------------------------- program constants
DefaultMaxConcurrent == 3
DefaultMaxQueueSize == 10
QueueTimeoutMs == 30000
InferenceTimeoutMs == 60000
ProbeTimeoutMs == 5000

Ids == 1..MaxBurst

\* Values a generic unit of work may return, errors it may throw.
Values == {<<"X1">>, <<"X2">>}
\* An Error object: message (a sequence of text pieces), error.code,
\* error.response.status (0: no response), error.response.data.
NoData == <<>>
Err(msg) == [message |-> msg, code |-> "none", status |-> 0, data |-> NoData]
WorkErrors == {Err(<<"E1">>)}

QueueFullError == Err(<<"Request queue is full. Please try again later.">>)
QueueTimeoutError == Err(<<"Request timed out in queue">>)

\* The requestFn handed to queueRequest.  An async function never throws
\* synchronously; a plain function may throw before returning a promise.
AsyncWork == <<"async">>
SyncThrowWork(e) == <<"syncThrow", e>>
GenericWorks == {AsyncWork} \cup {SyncThrowWork(e) : e \in WorkErrors}
\* The closure classifyImage hands to queueRequest.
ClassifyWork(prompt) == <<"classifyImage", prompt>>

\* State of a unit of work.
NotStarted == <<"notStarted">>
Running == <<"running">>
\* classifyImage's closure suspended at one of its awaits; it carries the
\* prompt it captured and, at the POST, its startTime.
AwaitIsAvailable(prompt) == <<"isAvailable", prompt>>
AwaitIsModelAvailable(prompt) == <<"isModelAvailable", prompt>>
AwaitGenerate(prompt, startTime) == <<"generate", prompt, startTime>>
Returned(v) == <<"returned", v>>
Threw(e) == <<"threw", e>>

\* State of the promise returned by queueRequest.
Pending == <<"pending">>
Resolved(v) == <<"resolved", v>>
Rejected(e) == <<"rejected", e>>

VARIABLES
  maxConcurrentRequests,  \* this.maxConcurrentRequests
  maxQueueSize,           \* this.maxQueueSize
  currentRequests,        \* this.currentRequests
  requestQueue,           \* this.requestQueue: sequence of queue items
  now,                    \* Date.now()
  submitted,              \* number of queueRequest calls made; call k has id k
  phase,                  \* per call: "unsent", "queued", "executing", "finished"
  workState,              \* per call: state of its unit of work
  settlement,             \* per call: state of the promise queueRequest returned
  resolveCalls,           \* per call: number of calls of queueItem.resolve
  rejectCalls,            \* per call: number of calls of queueItem.reject
  invocations,            \* per call: number of calls of queueItem.execute
  startOrder,             \* ids in the order their work was invoked
  requests,               \* per call: HTTP requests its unit of work issued
  responses,              \* per call: HTTP responses its unit of work got
  statusCall,             \* the getStatus() call in progress or last finished
  call,                   \* a direct call of one helper: inputs and results
  timeline,               \* per call: when it was submitted, when its pending HTTP request was sent
  endpoint                \* per call: the classify endpoint's request that made it

vars == <<maxConcurrentRequests, maxQueueSize, currentRequests, requestQueue,
          now, submitted, phase, workState, settlement, resolveCalls,
          rejectCalls, invocations, startOrder, requests, responses,
          statusCall, call, timeline, endpoint>>

\* parseInt(process.env.X) || dflt: env is <<>> when the variable is unset
\* (parseInt gives NaN) and <<n>> when it holds the integer n.
ParseEnvOr(env, dflt) ==
  IF env = <<>> THEN dflt
  ELSE IF env[1] = 0 THEN dflt
  ELSE env[1]

\* ------------------------------------------------ the gateway as a record
\* The mutable fields the queue code touches, gathered so that the
\* mutually recursive executeRequest / processQueue can be written as
\* functions from gateway to gateway.
Gateway ==
  [currentRequests |-> currentRequests, requestQueue |-> requestQueue,
   phase |-> phase, workState |-> workState, settlement |-> settlement,
   resolveCalls |-> resolveCalls, rejectCalls |-> rejectCalls,
   invocations |-> invocations, startOrder |-> startOrder,
   requests |-> requests]

Store(g) ==
  /\ currentRequests' = g.currentRequests
  /\ requestQueue' = g.requestQueue
  /\ phase' = g.phase
  /\ workState' = g.workState
  /\ settlement' = g.settlement
  /\ resolveCalls' = g.resolveCalls
  /\ rejectCalls' = g.rejectCalls
  /\ invocations' = g.invocations
  /\ startOrder' = g.startOrder
  /\ requests' = g.requests

\* F applied to the value of v, with v evaluated once.
Eval(v, F(_)) == CHOOSE r \in {F(x) : x \in {v}} : TRUE

\* queueItem.resolve(v) / queueItem.reject(e): a promise keeps its first
\* settlement, later calls have no effect on it.
resolve(g, id, v) ==
  [g EXCEPT !.resolveCalls[id] = @ + 1,
            !.settlement[id] = IF @ = Pending THEN Resolved(v) ELSE @]

reject(g, id, e) ==
  [g EXCEPT !.rejectCalls[id] = @ + 1,
            !.settlement[id] = IF @ = Pending THEN Rejected(e) ELSE @]

GetTags == "GET /api/tags"
PostGenerate == "POST /api/generate"

QueueItem(id, fn, t) == [id |-> id, execute |-> fn, timestamp |-> t]

\* queueItem.execute(): the synchronous part of the unit of work.
invoke(gateway, item) ==
  Eval(gateway, LAMBDA g :
    LET g1 == [g EXCEPT !.invocations[item.id] = @ + 1,
                        !.startOrder = Append(@, item.id)]
    IN CASE item.execute[1] = "syncThrow" ->
              [g1 EXCEPT !.workState[item.id] = Threw(item.execute[2])]
         [] item.execute[1] = "classifyImage" ->
              \* runs up to the GET inside isAvailable
              [g1 EXCEPT !.workState[item.id] = AwaitIsAvailable(item.execute[2]),
                         !.requests[item.id] = Append(@, GetTags)]
         [] OTHER ->
              [g1 EXCEPT !.workState[item.id] = Running])

RECURSIVE executeRequest(_, _, _)
RECURSIVE executeRequestResume(_, _, _)
RECURSIVE processQueue(_, _)

\* Faulty variant: the request is never counted in.
executeRequest_noIncrement(gateway, item, t) ==
  Eval(gateway, LAMBDA g :
    LET g1 == [g EXCEPT !.phase[item.id] = "executing"]
        g2 == invoke(g1, item)
    IN IF g2.workState[item.id][1] = "threw"
         THEN executeRequestResume(g2, item.id, t)
         ELSE g2)

\* executeRequest up to its await: count the request in, call the work.
\* A synchronous throw is caught at once, without suspending.
executeRequest(gateway, item, t) ==
  Eval(gateway, LAMBDA g :
    LET g1 == [g EXCEPT !.currentRequests = @ + 1,
                        !.phase[item.id] = "executing"]
        g2 == invoke(g1, item)
    IN IF g2.workState[item.id][1] = "threw"
         THEN executeRequestResume(g2, item.id, t)
         ELSE g2)

\* Faulty variant: the catch branch resolves instead of rejecting.
executeRequestResume_alwaysResolve(gateway, id, t) ==
  Eval(gateway, LAMBDA g :
    LET w == g.workState[id]
        g1 == resolve(g, id, w[2])
        g2 == [g1 EXCEPT !.currentRequests = @ - 1,
                         !.phase[id] = "finished"]
    IN processQueue(g2, t))

\* Faulty variant: the request is counted out after a success only, not in
\* a finally block.
executeRequestResume_noFinally(gateway, id, t) ==
  Eval(gateway, LAMBDA g :
    LET w == g.workState[id]
        g1 == IF w[1] = "returned" THEN resolve(g, id, w[2])
                                   ELSE reject(g, id, w[2])
        g2 == [g1 EXCEPT !.currentRequests =
                           IF w[1] = "returned" THEN @ - 1 ELSE @,
                         !.phase[id] = "finished"]
    IN processQueue(g2, t))

\* Faulty variant: the finally block counts the request out but does not
\* call processQueue.
executeRequestResume_noDrain(gateway, id, t) ==
  Eval(gateway, LAMBDA g :
    LET w == g.workState[id]
        g1 == IF w[1] = "returned" THEN resolve(g, id, w[2])
                                   ELSE reject(g, id, w[2])
    IN [g1 EXCEPT !.currentRequests = @ - 1,
                  !.phase[id] = "finished"])

\* Faulty variant: a work function that threw is invoked once more before
\* the caller hears of it.
executeRequestResume_retry(gateway, id, t) ==
  Eval(gateway, LAMBDA g :
    LET w == g.workState[id]
        g1 == IF w[1] = "returned" THEN resolve(g, id, w[2])
                                   ELSE reject(g, id, w[2])
        g2 == [g1 EXCEPT !.currentRequests = @ - 1,
                         !.phase[id] = "finished"]
    IN IF w[1] = "threw" /\ g.invocations[id] = 1
         THEN [g EXCEPT !.invocations[id] = @ + 1,
                        !.workState[id] = Running]
         ELSE processQueue(g2, t))

\* executeRequest from the settled await on: resolve or reject the caller,
\* then (finally) count the request out and drain the queue.
executeRequestResume(gateway, id, t) ==
  Eval(gateway, LAMBDA g :
    LET w == g.workState[id]
        g1 == IF w[1] = "returned" THEN resolve(g, id, w[2])
                                   ELSE reject(g, id, w[2])
        g2 == [g1 EXCEPT !.currentRequests = @ - 1,
                         !.phase[id] = "finished"]
    IN processQueue(g2, t))

\* Faulty variant: no return after rejecting an expired request, so it is
\* executed as well.
processQueue_noReturn(gateway, t) ==
  Eval(gateway, LAMBDA g :
    IF Len(g.requestQueue) > 0 /\ g.currentRequests < maxConcurrentRequests
      THEN LET nextRequest == Head(g.requestQueue)
               g1 == [g EXCEPT !.requestQueue = Tail(@)]
               waitTime == t - nextRequest.timestamp
           IN IF waitTime > QueueTimeoutMs
                THEN executeRequest(
                       processQueue(
                         reject(g1, nextRequest.id, QueueTimeoutError), t),
                       nextRequest, t)
                ELSE executeRequest(g1, nextRequest, t)
      ELSE g)

\* Faulty variant: the queue wait is never checked.
processQueue_noTimeout(gateway, t) ==
  Eval(gateway, LAMBDA g :
    IF Len(g.requestQueue) > 0 /\ g.currentRequests < maxConcurrentRequests
      THEN LET nextRequest == Head(g.requestQueue)
               g1 == [g EXCEPT !.requestQueue = Tail(@)]
           IN executeRequest(g1, nextRequest, t)
      ELSE g)

\* Faulty variant: an expired request is rejected but the next one is not
\* tried.
processQueue_noRetry(gateway, t) ==
  Eval(gateway, LAMBDA g :
    IF Len(g.requestQueue) > 0 /\ g.currentRequests < maxConcurrentRequests
      THEN LET nextRequest == Head(g.requestQueue)
               g1 == [g EXCEPT !.requestQueue = Tail(@)]
               waitTime == t - nextRequest.timestamp
           IN IF waitTime > QueueTimeoutMs
                THEN [reject(g1, nextRequest.id, QueueTimeoutError)
                        EXCEPT !.phase[nextRequest.id] = "finished"]
                ELSE executeRequest(g1, nextRequest, t)
      ELSE g)

\* Faulty variant: pop() instead of shift(), the newest request runs first.
processQueue_pop(gateway, t) ==
  Eval(gateway, LAMBDA g :
    IF Len(g.requestQueue) > 0 /\ g.currentRequests < maxConcurrentRequests
      THEN LET n == Len(g.requestQueue)
               nextRequest == g.requestQueue[n]
               g1 == [g EXCEPT !.requestQueue = SubSeq(@, 1, n - 1)]
               waitTime == t - nextRequest.timestamp
           IN IF waitTime > QueueTimeoutMs
                THEN processQueue(
                       [reject(g1, nextRequest.id, QueueTimeoutError)
                          EXCEPT !.phase[nextRequest.id] = "finished"], t)
                ELSE executeRequest(g1, nextRequest, t)
      ELSE g)

processQueue(gateway, t) ==
  Eval(gateway, LAMBDA g :
    IF Len(g.requestQueue) > 0 /\ g.currentRequests < maxConcurrentRequests
      THEN LET nextRequest == Head(g.requestQueue)
               g1 == [g EXCEPT !.requestQueue = Tail(@)]
               waitTime == t - nextRequest.timestamp
           IN IF waitTime > QueueTimeoutMs
                THEN processQueue(
                       [reject(g1, nextRequest.id, QueueTimeoutError)
                          EXCEPT !.phase[nextRequest.id] = "finished"], t)
                ELSE executeRequest(g1, nextRequest, t)
      ELSE g)

\* Faulty variant: <= in the capacity test.
queueRequest_admitLeq(gateway, id, fn, t) ==
  Eval(gateway, LAMBDA g :
    LET queueItem == QueueItem(id, fn, t)
    IN IF g.currentRequests <= maxConcurrentRequests
         THEN executeRequest(g, queueItem, t)
         ELSE IF Len(g.requestQueue) >= maxQueueSize
                THEN [reject(g, id, QueueFullError)
                        EXCEPT !.phase[id] = "finished"]
                ELSE [g EXCEPT !.requestQueue = Append(@, queueItem),
                               !.phase[id] = "queued"])

\* Faulty variant: > in the queue size test.
queueRequest_queueGt(gateway, id, fn, t) ==
  Eval(gateway, LAMBDA g :
    LET queueItem == QueueItem(id, fn, t)
    IN IF g.currentRequests < maxConcurrentRequests
         THEN executeRequest(g, queueItem, t)
         ELSE IF Len(g.requestQueue) > maxQueueSize
                THEN [reject(g, id, QueueFullError)
                        EXCEPT !.phase[id] = "finished"]
                ELSE [g EXCEPT !.requestQueue = Append(@, queueItem),
                               !.phase[id] = "queued"])

\* Faulty variant: no return after the queue-full reject, the request is
\* queued as well.
queueRequest_noReturn(gateway, id, fn, t) ==
  Eval(gateway, LAMBDA g :
    LET queueItem == QueueItem(id, fn, t)
    IN IF g.currentRequests < maxConcurrentRequests
         THEN executeRequest(g, queueItem, t)
         ELSE LET g1 == IF Len(g.requestQueue) >= maxQueueSize
                          THEN reject(g, id, QueueFullError)
                          ELSE g
              IN [g1 EXCEPT !.requestQueue = Append(@, queueItem),
                            !.phase[id] = "queued"])

\* Faulty variant: only the entries that have not expired count against the
\* queue's capacity.
queueRequest_countLive(gateway, id, fn, t) ==
  Eval(gateway, LAMBDA g :
    LET queueItem == QueueItem(id, fn, t)
        live == {k \in 1..Len(g.requestQueue) :
                   t - g.requestQueue[k].timestamp <= QueueTimeoutMs}
    IN IF g.currentRequests < maxConcurrentRequests
         THEN executeRequest(g, queueItem, t)
         ELSE IF Cardinality(live) >= maxQueueSize
                THEN [reject(g, id, QueueFullError)
                        EXCEPT !.phase[id] = "finished"]
                ELSE [g EXCEPT !.requestQueue = Append(@, queueItem),
                               !.phase[id] = "queued"])

\* Faulty variant: one slot is always kept free.
queueRequest_spareSlot(gateway, id, fn, t) ==
  Eval(gateway, LAMBDA g :
    LET queueItem == QueueItem(id, fn, t)
    IN IF g.currentRequests + 1 < maxConcurrentRequests
         THEN executeRequest(g, queueItem, t)
         ELSE IF Len(g.requestQueue) >= maxQueueSize
                THEN [reject(g, id, QueueFullError)
                        EXCEPT !.phase[id] = "finished"]
                ELSE [g EXCEPT !.requestQueue = Append(@, queueItem),
                               !.phase[id] = "queued"])

\* Faulty variant: the availability probe is sent when the request is
\* enqueued.
queueRequest_probeAtSubmit(gateway, id, fn, t) ==
  Eval(gateway, LAMBDA g :
    LET queueItem == QueueItem(id, fn, t)
    IN IF g.currentRequests < maxConcurrentRequests
         THEN executeRequest(g, queueItem, t)
         ELSE IF Len(g.requestQueue) >= maxQueueSize
                THEN [reject(g, id, QueueFullError)
                        EXCEPT !.phase[id] = "finished"]
                ELSE [g EXCEPT !.requestQueue = Append(@, queueItem),
                               !.phase[id] = "queued",
                               !.requests[id] = Append(@, GetTags)])

\* Faulty variant: every submission first sweeps an expired head out of the
\* queue.
queueRequest_sweep(gateway, id, fn, t) ==
  Eval(gateway, LAMBDA g0 :
    LET queueItem == QueueItem(id, fn, t)
        stale == /\ Len(g0.requestQueue) > 0
                 /\ t - Head(g0.requestQueue).timestamp > QueueTimeoutMs
        g == IF stale
               THEN [reject([g0 EXCEPT !.requestQueue = Tail(@)],
                            Head(g0.requestQueue).id, QueueTimeoutError)
                       EXCEPT !.phase[Head(g0.requestQueue).id] = "finished"]
               ELSE g0
    IN IF g.currentRequests < maxConcurrentRequests
         THEN executeRequest(g, queueItem, t)
         ELSE IF Len(g.requestQueue) >= maxQueueSize
                THEN [reject(g, id, QueueFullError)
                        EXCEPT !.phase[id] = "finished"]
                ELSE [g EXCEPT !.requestQueue = Append(@, queueItem),
                               !.phase[id] = "queued"])

\* queueRequest(requestFn): run at once, enqueue, or reject as full.
queueRequest(gateway, id, fn, t) ==
  Eval(gateway, LAMBDA g :
    LET queueItem == QueueItem(id, fn, t)
    IN IF g.currentRequests < maxConcurrentRequests
         THEN executeRequest(g, queueItem, t)
         ELSE IF Len(g.requestQueue) >= maxQueueSize
                THEN [reject(g, id, QueueFullError)
                        EXCEPT !.phase[id] = "finished"]
                ELSE [g EXCEPT !.requestQueue = Append(@, queueItem),
                               !.phase[id] = "queued"])

\* ------------------------------------------------ classifyImage, as data
\* this.model, with OLLAMA_MODEL unset.
Model == <<"moondream">>
DefaultPrompt ==
  <<"What object is in this image? Provide a brief, descriptive answer.">>
Prompts == {DefaultPrompt}

\* String.prototype.includes on sequences of text pieces.
Includes(text, part) ==
  \E i \in 1..(Len(text) - Len(part) + 1) :
    SubSeq(text, i, i + Len(part) - 1) = part

\* What an axios call ends in: a response (status, body) or a thrown error.
\* A tags body is <<>> (no data), <<"nomodels">> (data without a models
\* field) or <<"models", names>>.
HttpResponse(status, body) ==
  [kind |-> "response", status |-> status, body |-> body, error |-> Err(<<>>)]
HttpError(msg, code, status, data) ==
  [kind |-> "error", status |-> 0, body |-> NoData,
   error |-> [message |-> msg, code |-> code, status |-> status, data |-> data]]

\* Faulty variant: the raw message is appended to the connection-refused
\* message.
handleNetworkError_leak(error) ==
  IF error.code = "ETIMEDOUT" \/ error.code = "TIMEOUT"
    THEN Err(<<"Request to Ollama service timed out. The image might be too large or complex, or the service may be overloaded.">>)
  ELSE IF error.code = "ECONNREFUSED"
    THEN Err(<<"Cannot connect to Ollama service. Please ensure Ollama is running and accessible at the configured URL.">> \o error.message)
  ELSE IF error.code = "ENOTFOUND"
    THEN Err(<<"Ollama service URL not found. Please check your OLLAMA_API_URL configuration.">>)
  ELSE IF error.code = "ENETUNREACH"
    THEN Err(<<"Network unreachable. Please check your network connection and Ollama service configuration.">>)
  ELSE IF error.status = 404
    THEN Err(<<"Ollama API endpoint not found. Please check your Ollama installation and version.">>)
  ELSE IF error.status = 400
    THEN Err(<<"Ollama API error: ", ToString(error.data)>>)
  ELSE IF error.status >= 500
    THEN Err(<<"Ollama service is experiencing internal issues. Please try again later.">>)
  ELSE Err(<<"Ollama service error: ">> \o error.message)

\* Faulty variant: the HTTP status rules are tried before the code rules.
handleNetworkError_statusFirst(error) ==
  IF error.status = 404
    THEN Err(<<"Ollama API endpoint not found. Please check your Ollama installation and version.">>)
  ELSE IF error.status = 400
    THEN Err(<<"Ollama API error: ", ToString(error.data)>>)
  ELSE IF error.status >= 500
    THEN Err(<<"Ollama service is experiencing internal issues. Please try again later.">>)
  ELSE IF error.code = "ETIMEDOUT" \/ error.code = "TIMEOUT"
    THEN Err(<<"Request to Ollama service timed out. The image might be too large or complex, or the service may be overloaded.">>)
  ELSE IF error.code = "ECONNREFUSED"
    THEN Err(<<"Cannot connect to Ollama service. Please ensure Ollama is running and accessible at the configured URL.">>)
  ELSE IF error.code = "ENOTFOUND"
    THEN Err(<<"Ollama service URL not found. Please check your OLLAMA_API_URL configuration.">>)
  ELSE IF error.code = "ENETUNREACH"
    THEN Err(<<"Network unreachable. Please check your network connection and Ollama service configuration.">>)
  ELSE Err(<<"Ollama service error: ">> \o error.message)

\* handleNetworkError(error): never returns; the value is the error thrown.
handleNetworkError(error) ==
  IF error.code = "ETIMEDOUT" \/ error.code = "TIMEOUT"
    THEN Err(<<"Request to Ollama service timed out. The image might be too large or complex, or the service may be overloaded.">>)
  ELSE IF error.code = "ECONNREFUSED"
    THEN Err(<<"Cannot connect to Ollama service. Please ensure Ollama is running and accessible at the configured URL.">>)
  ELSE IF error.code = "ENOTFOUND"
    THEN Err(<<"Ollama service URL not found. Please check your OLLAMA_API_URL configuration.">>)
  ELSE IF error.code = "ENETUNREACH"
    THEN Err(<<"Network unreachable. Please check your network connection and Ollama service configuration.">>)
  ELSE IF error.status = 404
    THEN Err(<<"Ollama API endpoint not found. Please check your Ollama installation and version.">>)
  ELSE IF error.status = 400
    THEN Err(<<"Ollama API error: ", ToString(error.data)>>)
  ELSE IF error.status >= 500
    THEN Err(<<"Ollama service is experiencing internal issues. Please try again later.">>)
  ELSE Err(<<"Ollama service error: ">> \o error.message)

\* Faulty variant: any 2xx answer counts as available.
isAvailable_any2xx(r) ==
  IF r.kind = "error" THEN FALSE ELSE r.status >= 200 /\ r.status < 300

\* isAvailable(), given what its GET /api/tags ended in.
isAvailable(r) ==
  IF r.kind = "error" THEN FALSE ELSE r.status = 200

\* isModelAvailable(), given what its GET /api/tags ended in.  Reading
\* .models of a missing body throws inside the try and gives false.
isModelAvailable(r) ==
  IF r.kind = "error" THEN FALSE
  ELSE IF r.status = 200 /\ r.body # NoData /\ r.body[1] = "models"
    THEN \E k \in 1..Len(r.body[2]) : Includes(r.body[2][k], Model)
  ELSE FALSE

ServiceUnavailableMsg ==
  <<"Ollama service is not available. Please ensure Ollama is running.">>
ModelUnavailableMsg ==
  <<"Model '">> \o Model
    \o <<"' is not available. Please run: ollama pull ">> \o Model

\* String(x).trim() on a sequence of text pieces; " " is white space.
RECURSIVE TrimLeft(_)
TrimLeft(text) ==
  IF text # <<>> /\ Head(text) = " " THEN TrimLeft(Tail(text)) ELSE text
RECURSIVE TrimRight(_)
TrimRight(text) ==
  IF text # <<>> /\ text[Len(text)] = " "
    THEN TrimRight(SubSeq(text, 1, Len(text) - 1))
    ELSE text
Trim(text) == TrimRight(TrimLeft(text))

\* Math.round(n / 1000000) for n >= 0.
RoundToMs(n) == (n + 500000) \div 1000000

\* A generate body is <<>> (no data) or a record: hasResponse (the body
\* has a 'response' property), response (<<"null">>, <<"undefined">> or
\* <<"text", pieces>>), total_duration (<<>> when absent, else <<ns>>).
GenerateBody(hasResponse, response, duration) ==
  <<[hasResponse |-> hasResponse, response |-> response,
     total_duration |-> duration]>>

\* Faulty variant: a null or undefined response field is stringified into
\* the result.
classifyResult_noNullCheck(r, prompt, processingTime) ==
  IF r.body = NoData
    THEN Threw(Err(<<"Empty response from Ollama API">>))
  ELSE IF r.status # 200
    THEN Threw(Err(<<"Ollama API returned status ", ToString(r.status),
                     ": ", ToString(r.body)>>))
  ELSE IF ~r.body[1].hasResponse
    THEN Threw(Err(<<"Ollama API response is missing the \"response\" field">>))
  ELSE Returned(
         [success |-> TRUE,
          classification |->
            IF r.body[1].response[1] = "text"
              THEN Trim(r.body[1].response[2]) ELSE <<r.body[1].response[1]>>,
          model |-> Model,
          prompt |-> prompt,
          processingTime |->
            IF r.body[1].total_duration # <<>> /\ r.body[1].total_duration[1] # 0
              THEN RoundToMs(r.body[1].total_duration[1])
              ELSE processingTime])

\* Lines 242-284: validate the POST's response and build the result; the
\* value is what the try block ends in, before the catch.
classifyResult(r, prompt, processingTime) ==
  IF r.body = NoData
    THEN Threw(Err(<<"Empty response from Ollama API">>))
  ELSE IF r.status # 200
    THEN Threw(Err(<<"Ollama API returned status ", ToString(r.status),
                     ": ", ToString(r.body)>>))
  ELSE IF ~r.body[1].hasResponse
    THEN Threw(Err(<<"Ollama API response is missing the \"response\" field">>))
  ELSE IF r.body[1].response[1] \in {"undefined", "null"}
    THEN Threw(Err(<<"Ollama API response field is null or undefined">>))
  ELSE Returned(
         [success |-> TRUE,
          classification |-> Trim(r.body[1].response[2]),
          model |-> Model,
          prompt |-> prompt,
          processingTime |->
            IF r.body[1].total_duration # <<>> /\ r.body[1].total_duration[1] # 0
              THEN RoundToMs(r.body[1].total_duration[1])
              ELSE processingTime])

\* The catch of the work function (lines 286-297): whatever was thrown in
\* the try goes through handleNetworkError.
catchInWork(outcome) ==
  IF outcome[1] = "threw" THEN Threw(handleNetworkError(outcome[2]))
                         ELSE outcome

\* Faulty variant: the answer of isAvailable() is ignored.
afterIsAvailable_unchecked(w, r) ==
  [work |-> AwaitIsModelAvailable(w[2]), issue |-> <<GetTags>>]

\* Faulty variant: the POST is issued before the model check is looked at.
afterIsModelAvailable_postFirst(w, r, t) ==
  IF ~isModelAvailable(r)
    THEN [work |-> catchInWork(Threw(Err(ModelUnavailableMsg))),
          issue |-> <<PostGenerate>>]
    ELSE [work |-> AwaitGenerate(w[2], t), issue |-> <<PostGenerate>>]

\* The work function after isAvailable() answered from response r: throw,
\* or go on to isModelAvailable(), which issues its own GET /api/tags.
afterIsAvailable(w, r) ==
  IF ~isAvailable(r)
    THEN [work |-> catchInWork(Threw(Err(ServiceUnavailableMsg))),
          issue |-> <<>>]
    ELSE [work |-> AwaitIsModelAvailable(w[2]), issue |-> <<GetTags>>]

\* The work function after isModelAvailable() answered from response r:
\* throw, or take startTime and issue the POST.
afterIsModelAvailable(w, r, t) ==
  IF ~isModelAvailable(r)
    THEN [work |-> catchInWork(Threw(Err(ModelUnavailableMsg))),
          issue |-> <<>>]
    ELSE [work |-> AwaitGenerate(w[2], t), issue |-> <<PostGenerate>>]

\* The work function after the POST ended in r.
afterGenerate(w, r, t) ==
  IF r.kind = "error"
    THEN [work |-> catchInWork(Threw(r.error)), issue |-> <<>>]
    ELSE [work |-> catchInWork(classifyResult(r, w[2], t - w[3])),
          issue |-> <<>>]

\* ------------------------------------------------------------- getStatus
BaseURL == "http://localhost:11434"

\* Faulty variant: the percentage is truncated.
RoundPercent_truncate(a, b) == (100 * a) \div b

\* Math.round(a / b * 100) for a >= 0, b > 0.
RoundPercent(a, b) == (200 * a + b) \div (2 * b)

\* Faulty variant: the two probe answers are reported under each other's
\* field.
getStatusReturn_swapped(isAvail, isModelReady, cur, queued) ==
  [service |-> [available |-> isModelReady, url |-> BaseURL, error |-> <<>>],
   model |-> [name |-> Model, available |-> isAvail],
   configuration |-> <<[timeout |-> InferenceTimeoutMs, baseURL |-> BaseURL,
                        maxConcurrentRequests |-> maxConcurrentRequests,
                        maxQueueSize |-> maxQueueSize]>>,
   queue |-> [currentRequests |-> cur, queuedRequests |-> queued,
              queueUtilization |->
                <<RoundPercent(cur, maxConcurrentRequests), "%">>]]

\* The object getStatus returns from its try block (lines 307-327).
\* Optional fields are <<>> when absent and <<value>> when present;
\* queueUtilization is the text `${n}%`, the pieces n and "%".
getStatusReturn(isAvail, isModelReady, cur, queued) ==
  [service |-> [available |-> isAvail, url |-> BaseURL, error |-> <<>>],
   model |-> [name |-> Model, available |-> isModelReady],
   configuration |-> <<[timeout |-> InferenceTimeoutMs, baseURL |-> BaseURL,
                        maxConcurrentRequests |-> maxConcurrentRequests,
                        maxQueueSize |-> maxQueueSize]>>,
   queue |-> [currentRequests |-> cur, queuedRequests |-> queued,
              queueUtilization |->
                <<RoundPercent(cur, maxConcurrentRequests), "%">>]]

\* The object getStatus returns from its catch block (lines 329-343).
getStatusCatch(error, cur, queued) ==
  [service |-> [available |-> FALSE, url |-> BaseURL,
                error |-> <<error.message>>],
   model |-> [name |-> Model, available |-> FALSE],
   configuration |-> <<>>,
   queue |-> [currentRequests |-> cur, queuedRequests |-> queued,
              queueUtilization |-> <<>>]]

\* What awaiting a probe gives getStatus: isAvailable() and
\* isModelAvailable() catch every failure of their GET and return false, so
\* the await always yields a boolean.
awaitIsAvailable(r) == Returned(isAvailable(r))
awaitIsModelAvailable(r) == Returned(isModelAvailable(r))

\* getStatus after `await this.isAvailable()` gave probe: keep the answer
\* and call isModelAvailable(), or land in the catch.
getStatusAfterIsAvailable(sc, r, probe, cur, queued) ==
  IF probe[1] = "threw"
    THEN [sc EXCEPT !.pc = "done", !.responses = Append(@, r),
                    !.outcome = Returned(getStatusCatch(probe[2], cur, queued))]
    ELSE [sc EXCEPT !.pc = "isModelAvailable", !.responses = Append(@, r),
                    !.isAvailable = probe[2]]

\* getStatus after `await this.isModelAvailable()` gave probe: build the
\* status from the counters as they are now, or land in the catch.
getStatusAfterIsModelAvailable(sc, r, probe, cur, queued) ==
  IF probe[1] = "threw"
    THEN [sc EXCEPT !.pc = "done", !.responses = Append(@, r),
                    !.outcome = Returned(getStatusCatch(probe[2], cur, queued))]
    ELSE [sc EXCEPT !.pc = "done", !.responses = Append(@, r),
                    !.outcome = Returned(getStatusReturn(sc.isAvailable,
                                           probe[2], cur, queued))]

\* No time has been noted for a call; no endpoint request stands behind it.
NoTimes == [submitted |-> -1, sent |-> -1]
NoEndpoint == [pc |-> "none", row |-> <<>>, tx |-> <<>>, reply |-> <<>>]

\* No getStatus() call has been made; no helper has been called directly.
NoStatusCall == [pc |-> "idle", count |-> 0, responses |-> <<>>,
                 isAvailable |-> FALSE, outcome |-> NotStarted]
NoCall == [fn |-> "none", args |-> <<>>, results |-> <<>>]

\* ------------------------------------------------------------------ states
InitQueue(envConcurrent, envQueue) ==
  /\ maxConcurrentRequests = ParseEnvOr(envConcurrent, DefaultMaxConcurrent)
  /\ maxQueueSize = ParseEnvOr(envQueue, DefaultMaxQueueSize)
  /\ currentRequests = 0
  /\ requestQueue = <<>>
  /\ now = 0
  /\ submitted = 0
  /\ phase = [i \in Ids |-> "unsent"]
  /\ workState = [i \in Ids |-> NotStarted]
  /\ settlement = [i \in Ids |-> Pending]
  /\ resolveCalls = [i \in Ids |-> 0]
  /\ rejectCalls = [i \in Ids |-> 0]
  /\ invocations = [i \in Ids |-> 0]
  /\ startOrder = <<>>
  /\ requests = [i \in Ids |-> <<>>]
  /\ responses = [i \in Ids |-> <<>>]
  /\ statusCall = NoStatusCall
  /\ timeline = [i \in Ids |-> NoTimes]
  /\ endpoint = [i \in Ids |-> NoEndpoint]

InitWith(envConcurrent, envQueue) ==
  /\ InitQueue(envConcurrent, envQueue)
  /\ call = NoCall

Init ==
  \E c \in 1..MaxConcurrentEnv, q \in 1..MaxQueueEnv : InitWith(<<c>>, <<q>>)

\* ----------------------------------------------------------------- actions
\* queueRequest(fn) is called: everything the call does to the gateway.
QueueRequestCall(fn, limit) ==
  /\ submitted < limit
  /\ submitted' = submitted + 1
  /\ \E g \in {queueRequest(Gateway, submitted + 1, fn, now)} : Store(g)
  /\ UNCHANGED <<maxConcurrentRequests, maxQueueSize, now, responses,
                 statusCall, call>>

\* A caller submits a unit of work.
Submit(fn, limit) ==
  /\ QueueRequestCall(fn, limit)
  /\ UNCHANGED <<timeline, endpoint>>

\* A running unit of work returns v.
WorkReturns(id, v) ==
  /\ phase[id] = "executing"
  /\ workState[id] = Running
  /\ workState' = [workState EXCEPT ![id] = Returned(v)]
  /\ UNCHANGED <<maxConcurrentRequests, maxQueueSize, currentRequests,
                 requestQueue, now, submitted, phase, settlement,
                 resolveCalls, rejectCalls, invocations, startOrder,
                 requests, responses, statusCall, call, timeline, endpoint>>

\* A running unit of work throws e (its promise rejects).
WorkThrows(id, e) ==
  /\ phase[id] = "executing"
  /\ workState[id] = Running
  /\ workState' = [workState EXCEPT ![id] = Threw(e)]
  /\ UNCHANGED <<maxConcurrentRequests, maxQueueSize, currentRequests,
                 requestQueue, now, submitted, phase, settlement,
                 resolveCalls, rejectCalls, invocations, startOrder,
                 requests, responses, statusCall, call, timeline, endpoint>>

\* executeRequest resumes after its await: everything it does to the
\* gateway.
ExecuteRequestResumes(id) ==
  /\ phase[id] = "executing"
  /\ workState[id][1] \in {"returned", "threw"}
  /\ \E g \in {executeRequestResume(Gateway, id, now)} : Store(g)
  /\ UNCHANGED <<maxConcurrentRequests, maxQueueSize, now, submitted,
                 responses, statusCall, call>>

\* executeRequest resumes after its await.
Resume(id) ==
  /\ ExecuteRequestResumes(id)
  /\ UNCHANGED <<timeline, endpoint>>

\* Time passes.
Tick ==
  /\ now < MaxNow
  /\ now' = now + TickMs
  /\ UNCHANGED <<maxConcurrentRequests, maxQueueSize, currentRequests,
                 requestQueue, submitted, phase, workState, settlement,
                 resolveCalls, rejectCalls, invocations, startOrder,
                 requests, responses, statusCall, call, timeline, endpoint>>

\* ---- the classifyImage unit of work: one action per awaited HTTP call
TagsResponses ==
  { HttpError(<<"connect ECONNREFUSED">>, "ECONNREFUSED", 0, NoData),
    HttpResponse(200, <<"models", <<<<"moondream", ":latest">>, <<"llama2:7b">>>>>>),
    HttpResponse(200, <<"models", <<<<"llama2:7b">>>>>>) }

GenerateResponses ==
  { HttpError(<<"timeout of 60000ms exceeded">>, "ETIMEDOUT", 0, NoData),
    HttpResponse(200, GenerateBody(TRUE, <<"text", <<" ", "a cat", " ">>>>,
                                   <<1500000000>>)),
    HttpResponse(200, GenerateBody(TRUE, <<"null">>, <<>>)) }

\* The closure of classifyImage resumes with response r and runs to its
\* next await or to its end.
WorkContinues(id, r, next) ==
  /\ workState' = [workState EXCEPT ![id] = next.work]
  /\ requests' = [requests EXCEPT ![id] = @ \o next.issue]
  /\ responses' = [responses EXCEPT ![id] = Append(@, r)]
  /\ UNCHANGED <<maxConcurrentRequests, maxQueueSize, currentRequests,
                 requestQueue, now, submitted, phase, settlement,
                 resolveCalls, rejectCalls, invocations, startOrder,
                 statusCall, call>>

WorkStep(id, r, next) ==
  /\ WorkContinues(id, r, next)
  /\ UNCHANGED <<timeline, endpoint>>

\* The GET of isAvailable() ends in r.
IsAvailableResponse(id, r) ==
  /\ phase[id] = "executing"
  /\ workState[id][1] = "isAvailable"
  /\ WorkStep(id, r, afterIsAvailable(workState[id], r))

\* The GET of isModelAvailable() ends in r.
IsModelAvailableResponse(id, r) ==
  /\ phase[id] = "executing"
  /\ workState[id][1] = "isModelAvailable"
  /\ WorkStep(id, r, afterIsModelAvailable(workState[id], r, now))

\* The POST /api/generate ends in r.
GenerateResponse(id, r) ==
  /\ phase[id] = "executing"
  /\ workState[id][1] = "generate"
  /\ WorkStep(id, r, afterGenerate(workState[id], r, now))

SubmitClassify == \E prompt \in Prompts : Submit(ClassifyWork(prompt), MaxClassify)
IsAvailableResponseSome ==
  \E id \in Ids, r \in TagsResponses : IsAvailableResponse(id, r)
IsModelAvailableResponseSome ==
  \E id \in Ids, r \in TagsResponses : IsModelAvailableResponse(id, r)
GenerateResponseSome ==
  \E id \in Ids, r \in GenerateResponses : GenerateResponse(id, r)

\* What the POST /api/generate can end in: transport errors, payloads that
\* fail validation, and valid payloads with, without and with a zero
\* total_duration.
GenerateOutcomes ==
  { HttpError(<<"timeout of 60000ms exceeded">>, "ETIMEDOUT", 0, NoData),
    HttpError(<<"socket hang up">>, "ECONNRESET", 0, NoData),
    HttpResponse(200, NoData),
    HttpResponse(201, GenerateBody(TRUE, <<"text", <<"a cat">>>>, <<>>)),
    HttpResponse(200, GenerateBody(FALSE, <<"undefined">>, <<>>)),
    HttpResponse(200, GenerateBody(TRUE, <<"null">>, <<>>)),
    HttpResponse(200, GenerateBody(TRUE, <<"undefined">>, <<>>)),
    HttpResponse(200, GenerateBody(TRUE, <<"text", <<" ", "a cat", " ">>>>,
                                   <<1500000000>>)),
    HttpResponse(200, GenerateBody(TRUE, <<"text", <<"a dog">>>>, <<>>)),
    HttpResponse(200, GenerateBody(TRUE, <<"text", <<"a dog">>>>, <<0>>)),
    HttpResponse(200, GenerateBody(TRUE, <<"text", <<>>>>, <<1499999>>)) }

SubmitGenerate ==
  \E prompt \in Prompts : Submit(ClassifyWork(prompt), MaxGenerate)
GenerateOutcomeSome ==
  \E id \in Ids, r \in GenerateOutcomes : GenerateResponse(id, r)

\* ---- handleNetworkError(error), called on its own
ErrorCodes ==
  {"none", "ETIMEDOUT", "TIMEOUT", "ECONNREFUSED", "ENOTFOUND",
   "ENETUNREACH", "ECONNRESET"}
\* error.response?.status; 0 stands for an error without a response.
ErrorStatuses == {0, 400, 403, 404, 500, 503}
RawMessages == {<<"socket hang up">>, <<"connect ", "127.0.0.1:11434">>}
RawData == {<<"invalid image">>, <<"model not loaded">>}
TransportErrors ==
  { HttpError(m, c, 0, NoData).error : m \in RawMessages, c \in ErrorCodes }
  \cup { HttpError(m, c, st, d).error :
           m \in RawMessages, c \in ErrorCodes,
           st \in ErrorStatuses \ {0}, d \in RawData }

\* Two errors are about to be handed to handleNetworkError, one after the
\* other.
InitError ==
  /\ InitQueue(<<>>, <<>>)
  /\ \E e1 \in TransportErrors, e2 \in TransportErrors :
       call = [fn |-> "handleNetworkError", args |-> <<e1, e2>>,
               results |-> <<>>]

\* handleNetworkError is called with the next error; what it throws is
\* recorded.
HandleNetworkErrorCall ==
  /\ call.fn = "handleNetworkError"
  /\ Len(call.results) < Len(call.args)
  /\ call' = [call EXCEPT !.results =
                 Append(call.results,
                        Threw(handleNetworkError(
                                call.args[Len(call.results) + 1])))]
  /\ UNCHANGED <<maxConcurrentRequests, maxQueueSize, currentRequests,
                 requestQueue, now, submitted, phase, workState, settlement,
                 resolveCalls, rejectCalls, invocations, startOrder,
                 requests, responses, statusCall, timeline, endpoint>>

NextError == HandleNetworkErrorCall
SpecError == InitError /\ [][NextError]_vars

\* ---- getStatus(): one action per awaited probe
StatusTagsResponses ==
  { HttpError(<<"Connection failed">>, "ECONNREFUSED", 0, NoData),
    HttpError(<<"timeout of 5000ms exceeded">>, "ECONNABORTED", 0, NoData),
    HttpError(<<"Request failed with status code 503">>, "ERR_BAD_RESPONSE",
              503, <<"unavailable">>),
    HttpResponse(204, NoData),
    HttpResponse(200, NoData),
    HttpResponse(200, <<"models", <<<<"moondream", ":latest">>>>>>),
    HttpResponse(200, <<"models", <<<<"llama2:7b">>>>>>) }

StatusUnchanged ==
  UNCHANGED <<maxConcurrentRequests, maxQueueSize, currentRequests,
              requestQueue, now, submitted, phase, workState, settlement,
              resolveCalls, rejectCalls, invocations, startOrder, requests,
              responses, call, timeline, endpoint>>

\* A caller calls getStatus(); it runs up to the GET inside isAvailable().
GetStatusCall ==
  /\ statusCall.pc \in {"idle", "done"}
  /\ statusCall.count < MaxStatusCalls
  /\ statusCall' = [pc |-> "isAvailable", count |-> statusCall.count + 1,
                    responses |-> <<>>, isAvailable |-> FALSE,
                    outcome |-> Running]
  /\ StatusUnchanged

\* The GET of getStatus' isAvailable() ends in r.
StatusIsAvailableResponse(r) ==
  /\ statusCall.pc = "isAvailable"
  /\ statusCall' = getStatusAfterIsAvailable(statusCall, r,
                      awaitIsAvailable(r), currentRequests, Len(requestQueue))
  /\ StatusUnchanged

\* The GET of getStatus' isModelAvailable() ends in r.
StatusIsModelAvailableResponse(r) ==
  /\ statusCall.pc = "isModelAvailable"
  /\ statusCall' = getStatusAfterIsModelAvailable(statusCall, r,
                      awaitIsModelAvailable(r), currentRequests,
                      Len(requestQueue))
  /\ StatusUnchanged

StatusIsAvailableResponseSome ==
  \E r \in StatusTagsResponses : StatusIsAvailableResponse(r)
StatusIsModelAvailableResponseSome ==
  \E r \in StatusTagsResponses : StatusIsModelAvailableResponse(r)
SubmitStatus == \E fn \in GenericWorks : Submit(fn, MaxStatusSubmissions)

SubmitGeneric == \E fn \in GenericWorks : Submit(fn, MaxSubmissions)
WorkReturnsSome == \E id \in Ids, v \in Values : WorkReturns(id, v)
WorkThrowsSome == \E id \in Ids, e \in WorkErrors : WorkThrows(id, e)
ResumeSome == \E id \in Ids : Resume(id)

Next == SubmitGeneric \/ WorkReturnsSome \/ WorkThrowsSome \/ ResumeSome \/ Tick

Spec == Init /\ [][Next]_vars

NextClassify ==
  \/ SubmitClassify
  \/ IsAvailableResponseSome
  \/ IsModelAvailableResponseSome
  \/ GenerateResponseSome
  \/ ResumeSome
  \/ Tick
SpecClassify == Init /\ [][NextClassify]_vars

\* ---- classifyImage against the clock: every HTTP request runs under the
\* timeout it was sent with (axios starts one timer per request, when the
\* request is sent)
\* The times of this step are noted: a call's submission, and the sending of
\* an HTTP request of its unit of work.
Stamp ==
  timeline' =
    [id \in Ids |->
       [submitted |-> IF phase[id] = "unsent" /\ phase'[id] # "unsent"
                        THEN now ELSE timeline[id].submitted,
        sent |-> IF requests'[id] # requests[id]
                   THEN now ELSE timeline[id].sent]]

\* The error axios rejects with when a request has run for ms milliseconds.
TimeoutOf(ms) ==
  HttpError(<<"timeout of ", ToString(ms), "ms exceeded">>, "ECONNABORTED",
            0, NoData)

\* Faulty variant: the time since submission counts against the POST.
PostDeadline_fromSubmission(id) == timeline[id].submitted + InferenceTimeoutMs

\* When the pending GET /api/tags (timeout: 5000) and the pending POST
\* (instance timeout: this.timeout) of call id time out.
ProbeDeadline(id) == timeline[id].sent + ProbeTimeoutMs
PostDeadline(id) == timeline[id].sent + InferenceTimeoutMs

\* The deadline of the HTTP request call id is waiting for, if any.
Deadline(id) ==
  IF workState[id][1] \in {"isAvailable", "isModelAvailable"}
    THEN <<ProbeDeadline(id)>>
  ELSE IF workState[id][1] = "generate" THEN <<PostDeadline(id)>>
  ELSE <<>>

\* A timeout arrives when the deadline has come, an answer before it.
ArrivesInTime(r, ms, deadline) ==
  IF r = TimeoutOf(ms) THEN now >= deadline ELSE now < deadline

TimerTagsResponses ==
  { TimeoutOf(ProbeTimeoutMs),
    HttpResponse(200, <<"models", <<<<"moondream", ":latest">>>>>>) }
TimerGenerateResponses ==
  { TimeoutOf(InferenceTimeoutMs),
    HttpResponse(200, GenerateBody(TRUE, <<"text", <<"a dog">>>>, <<>>)) }

TimedSubmit ==
  /\ \E prompt \in Prompts : QueueRequestCall(ClassifyWork(prompt), MaxTimers)
  /\ Stamp
  /\ UNCHANGED endpoint
TimedResume ==
  /\ \E id \in Ids : ExecuteRequestResumes(id)
  /\ Stamp
  /\ UNCHANGED endpoint
TimedIsAvailableResponse ==
  /\ \E id \in Ids, r \in TimerTagsResponses :
       /\ phase[id] = "executing"
       /\ workState[id][1] = "isAvailable"
       /\ ArrivesInTime(r, ProbeTimeoutMs, ProbeDeadline(id))
       /\ WorkContinues(id, r, afterIsAvailable(workState[id], r))
  /\ Stamp
  /\ UNCHANGED endpoint
TimedIsModelAvailableResponse ==
  /\ \E id \in Ids, r \in TimerTagsResponses :
       /\ phase[id] = "executing"
       /\ workState[id][1] = "isModelAvailable"
       /\ ArrivesInTime(r, ProbeTimeoutMs, ProbeDeadline(id))
       /\ WorkContinues(id, r, afterIsModelAvailable(workState[id], r, now))
  /\ Stamp
  /\ UNCHANGED endpoint
TimedGenerateResponse ==
  /\ \E id \in Ids, r \in TimerGenerateResponses :
       /\ phase[id] = "executing"
       /\ workState[id][1] = "generate"
       /\ ArrivesInTime(r, InferenceTimeoutMs, PostDeadline(id))
       /\ WorkContinues(id, r, afterGenerate(workState[id], r, now))
  /\ Stamp
  /\ UNCHANGED endpoint
\* Time passes, unless a timer is due.
TimedTick ==
  /\ \A id \in Ids : Deadline(id) # <<>> => now < Deadline(id)[1]
  /\ Tick
NextTimers ==
  \/ TimedSubmit
  \/ TimedIsAvailableResponse
  \/ TimedIsModelAvailableResponse
  \/ TimedGenerateResponse
  \/ TimedResume
  \/ TimedTick
SpecTimers == Init /\ [][NextTimers]_vars

\* ---- POST /api/classify: the controller around classifyImage.  The
\* database answers every statement; its latency is not modelled.
\* The row Classification.create inserts.  Its INSERT goes through
\* database.query, that is the pool and not the transaction's client, so
\* the row is committed as soon as it is inserted.
ProcessingRecord ==
  [status |-> "processing", result |-> <<>>, error_message |-> <<>>]

\* UPDATE classifications SET <fields> on one row.
SetFields(row, fields) ==
  [f \in DOMAIN row |-> IF f \in DOMAIN fields THEN fields[f] ELSE row[f]]
RECURSIVE SetAll(_, _)
SetAll(row, updates) ==
  IF updates = <<>> THEN row
  ELSE SetAll(SetFields(row, Head(updates)), Tail(updates))

\* Database.transaction: COMMIT makes the statements of the client
\* permanent, ROLLBACK drops them.
Commit(row, tx) == SetAll(row, tx)
Rollback(row, tx) == row

\* The text pieces used in this module's messages in which the words
\* 'Ollama service' and 'timeout' occur; no message has either word
\* running across two pieces.
WithOllamaService ==
  { "Request to Ollama service timed out. The image might be too large or complex, or the service may be overloaded.",
    "Cannot connect to Ollama service. Please ensure Ollama is running and accessible at the configured URL.",
    "Ollama service URL not found. Please check your OLLAMA_API_URL configuration.",
    "Network unreachable. Please check your network connection and Ollama service configuration.",
    "Ollama service is experiencing internal issues. Please try again later.",
    "Ollama service error: ",
    "Ollama service is not available. Please ensure Ollama is running." }
WithTimeout ==
  { "timeout of ", "timeout of 60000ms exceeded", "timeout of 5000ms exceeded",
    "Request timeout", ToString(<<"timeout">>) }

\* error.message.includes(word), given the pieces in which word occurs.
MessageIncludes(message, pieces) ==
  \E k \in 1..Len(message) : message[k] \in pieces

\* The default branch of errorHandler, reached through next(error): the
\* gateway's errors are plain Error objects without name, code or
\* statusCode.
errorHandler(err) ==
  [status |-> 500,
   error |-> IF err.message = <<>> THEN <<"Internal server error">>
                                   ELSE err.message,
   message |-> <<>>, result |-> <<>>]

\* The controller's outer catch (lines 127-148).
errorReply(error) ==
  IF MessageIncludes(error.message, WithOllamaService)
    THEN [status |-> 503, error |-> <<"Service unavailable">>,
          message |-> error.message, result |-> <<>>]
  ELSE IF MessageIncludes(error.message, WithTimeout)
    THEN [status |-> 408, error |-> <<"Request timeout">>,
          message |->
            <<"Image processing took too long. Try with a smaller image.">>,
          result |-> <<>>]
  ELSE errorHandler(error)

\* res.status(200).json(result)
successReply(result) ==
  [status |-> 200, error |-> <<>>, message |-> <<>>,
   result |-> <<result.classification>>]

\* The transaction's callback after `await ollamaService.classifyImage`
\* settled as s: the UPDATE is sent on the transaction's client (lines
\* 87-90 and 116-119).
afterClassifyImage(ep, s) ==
  IF s[1] = "resolved"
    THEN [ep EXCEPT !.pc = "updating",
                    !.tx = Append(@, [status |-> "completed",
                                      result |-> <<s[2].classification>>])]
    ELSE [ep EXCEPT !.pc = "updating",
                    !.tx = Append(@, [status |-> "error",
                                      error_message |-> <<s[2].message>>])]

\* The callback returns or rethrows: the transaction commits or rolls
\* back, and the controller replies.
afterTransaction(ep, s) ==
  IF s[1] = "resolved"
    THEN [ep EXCEPT !.pc = "done", !.row = <<Commit(@[1], ep.tx)>>,
                    !.tx = <<>>, !.reply = <<successReply(s[2])>>]
    ELSE [ep EXCEPT !.pc = "done", !.row = <<Rollback(@[1], ep.tx)>>,
                    !.tx = <<>>, !.reply = <<errorReply(s[2])>>]

EndpointTagsResponses ==
  { HttpError(<<"connect ECONNREFUSED">>, "ECONNREFUSED", 0, NoData),
    HttpResponse(200, <<"models", <<<<"moondream", ":latest">>>>>>) }
EndpointGenerateResponses ==
  { HttpError(<<"connect ETIMEDOUT">>, "ETIMEDOUT", 0, NoData),
    HttpError(<<"Request failed with status code 400">>, "ERR_BAD_REQUEST",
              400, <<"timeout">>),
    HttpResponse(200, GenerateBody(TRUE, <<"text", <<"a cat">>>>, <<>>)) }

\* A request arrives: the transaction begins, the 'processing' row is
\* created and classifyImage is called.
EndpointClassify ==
  /\ \E prompt \in Prompts : QueueRequestCall(ClassifyWork(prompt), MaxEndpoint)
  /\ endpoint' = [endpoint EXCEPT ![submitted + 1] =
                    [pc |-> "awaiting", row |-> <<ProcessingRecord>>,
                     tx |-> <<>>, reply |-> <<>>]]
  /\ UNCHANGED timeline

\* The controller resumes with the gateway's answer.
EndpointSettled(id) ==
  /\ endpoint[id].pc = "awaiting"
  /\ settlement[id] # Pending
  /\ endpoint' = [endpoint EXCEPT ![id] = afterClassifyImage(@, settlement[id])]
  /\ UNCHANGED <<maxConcurrentRequests, maxQueueSize, currentRequests,
                 requestQueue, now, submitted, phase, workState, settlement,
                 resolveCalls, rejectCalls, invocations, startOrder,
                 requests, responses, statusCall, call, timeline>>

\* The transaction ends and the response is sent.
EndpointTransactionEnds(id) ==
  /\ endpoint[id].pc = "updating"
  /\ endpoint' = [endpoint EXCEPT ![id] = afterTransaction(@, settlement[id])]
  /\ UNCHANGED <<maxConcurrentRequests, maxQueueSize, currentRequests,
                 requestQueue, now, submitted, phase, workState, settlement,
                 resolveCalls, rejectCalls, invocations, startOrder,
                 requests, responses, statusCall, call, timeline>>

EndpointSettledSome == \E id \in Ids : EndpointSettled(id)
EndpointTransactionEndsSome == \E id \in Ids : EndpointTransactionEnds(id)
EndpointIsAvailableResponse ==
  \E id \in Ids, r \in EndpointTagsResponses : IsAvailableResponse(id, r)
EndpointIsModelAvailableResponse ==
  \E id \in Ids, r \in EndpointTagsResponses : IsModelAvailableResponse(id, r)
EndpointGenerateResponse ==
  \E id \in Ids, r \in EndpointGenerateResponses : GenerateResponse(id, r)

InitEndpoint == InitWith(<<1>>, <<1>>)
NextEndpoint ==
  \/ EndpointClassify
  \/ EndpointIsAvailableResponse
  \/ EndpointIsModelAvailableResponse
  \/ EndpointGenerateResponse
  \/ ResumeSome
  \/ EndpointSettledSome
  \/ EndpointTransactionEndsSome
  \/ Tick
SpecEndpoint == InitEndpoint /\ [][NextEndpoint]_vars

\* classifyImage with every kind of answer to its POST, while time passes.
NextGenerate ==
  \/ SubmitGenerate
  \/ IsAvailableResponseSome
  \/ IsModelAvailableResponseSome
  \/ GenerateOutcomeSome
  \/ ResumeSome
  \/ Tick
SpecGenerate == Init /\ [][NextGenerate]_vars

\* getStatus() called while the queue is at work.
NextStatus ==
  \/ SubmitStatus
  \/ WorkReturnsSome
  \/ WorkThrowsSome
  \/ ResumeSome
  \/ GetStatusCall
  \/ StatusIsAvailableResponseSome
  \/ StatusIsModelAvailableResponseSome
\* The configurations set from the environment, and the default one.
InitStatus == Init \/ InitWith(<<>>, <<>>)
SpecStatus == InitStatus /\ [][NextStatus]_vars

\* A burst of submissions none of which completes, under every configuration
\* the environment can give, the defaults included.
BurstEnv == {<<>>, <<0>>, <<1>>, <<2>>}
InitBurst == \E c \in BurstEnv, q \in BurstEnv : InitWith(c, q)
SubmitBurst == Submit(AsyncWork, MaxBurst)
NextBurst == SubmitBurst
SpecBurst == InitBurst /\ [][NextBurst]_vars

\* Every started unit of work eventually settles, and the event loop
\* eventually resumes an executeRequest whose await has settled.
WorkSettles(id) ==
  \/ \E v \in Values : WorkReturns(id, v)
  \/ \E e \in WorkErrors : WorkThrows(id, e)

Progress == \E id \in Ids : WorkSettles(id) \/ Resume(id)
SubmitFair == \E fn \in GenericWorks : Submit(fn, MaxFairSubmissions)
NextFair ==
  SubmitFair \/ WorkReturnsSome \/ WorkThrowsSome \/ ResumeSome \/ Tick
FairSpec == Init /\ [][NextFair]_vars /\ WF_vars(Progress)

\* Completions and the drain that follows them.  Configurations set from
\* the environment are explored with every generic action; the default
\* configuration (3 concurrent, 10 queued) is driven through a burst that
\* fills the gateway, followed by the completion of the requests that were
\* started first.
ExampleBurst == DefaultMaxConcurrent + DefaultMaxQueueSize
DefaultConfig ==
  /\ maxConcurrentRequests = DefaultMaxConcurrent
  /\ maxQueueSize = DefaultMaxQueueSize
InitDrain == Init \/ InitWith(<<>>, <<>>)
SubmitDrainEnv ==
  /\ ~DefaultConfig
  /\ \E fn \in GenericWorks : Submit(fn, MaxDrainSubmissions)
SubmitDrainBurst == DefaultConfig /\ Submit(AsyncWork, ExampleBurst)
SettleDrainEnv == ~DefaultConfig /\ (WorkReturnsSome \/ WorkThrowsSome)
SettleDrainFirst ==
  /\ DefaultConfig
  /\ submitted = ExampleBurst
  /\ \E id \in 1..DefaultMaxConcurrent : WorkSettles(id)
TickDrain == ~DefaultConfig /\ Tick
NextDrain ==
  \/ SubmitDrainEnv
  \/ SubmitDrainBurst
  \/ SettleDrainEnv
  \/ SettleDrainFirst
  \/ ResumeSome
  \/ TickDrain
SpecDrain == InitDrain /\ [][NextDrain]_vars

\* ------------------------------------------------------------------ claims
Min(a, b) == IF a < b THEN a ELSE b
Max(a, b) == IF a > b THEN a ELSE b
Executing == {i \in Ids : phase[i] = "executing"}
QueueIds == [k \in 1..Len(requestQueue) |-> requestQueue[k].id]
TimestampOf(id) ==
  requestQueue[CHOOSE k \in 1..Len(requestQueue) : requestQueue[k].id = id].timestamp
SubmitStep == submitted' = submitted + 1
Increasing(seq) == \A i, j \in 1..Len(seq) : i < j => seq[i] < seq[j]

\* C1: in every reachable state 0 <= currentRequests <= maxConcurrentRequests,
\* and the number of units of work executing at once never exceeds the cap.
C1_ConcurrencyCap ==
  /\ 0 <= currentRequests
  /\ currentRequests <= maxConcurrentRequests
  /\ Cardinality(Executing) <= maxConcurrentRequests

\* The cap is reached while requests wait and others have already finished.
C1_Witness ==
  /\ currentRequests = maxConcurrentRequests
  /\ Len(requestQueue) > 0
  /\ \E i \in Ids : phase[i] = "finished" /\ invocations[i] = 1

\* C2: in every reachable state 0 <= requestQueue.length <= maxQueueSize.
C2_QueueBound ==
  /\ 0 <= Len(requestQueue)
  /\ Len(requestQueue) <= maxQueueSize

\* The queue is full and a further submission has been turned away.
C2_Witness ==
  /\ Len(requestQueue) = maxQueueSize
  /\ \E i \in Ids : settlement[i] = Rejected(QueueFullError)

\* C3: a submission made while currentRequests = maxConcurrentRequests and
\* the queue holds maxQueueSize requests is rejected in the same step with
\* the queue-full error, leaves currentRequests and requestQueue unchanged,
\* and its work function is never invoked.
C3_QueueFullRejected ==
  /\ [][(/\ SubmitStep
         /\ currentRequests = maxConcurrentRequests
         /\ Len(requestQueue) = maxQueueSize)
        => (/\ settlement'[submitted'] = Rejected(QueueFullError)
            /\ rejectCalls'[submitted'] = 1
            /\ invocations'[submitted'] = 0
            /\ currentRequests' = currentRequests
            /\ requestQueue' = requestQueue)]_vars
  /\ [](\A i \in Ids : settlement[i] = Rejected(QueueFullError)
                         => invocations[i] = 0 /\ workState[i] = NotStarted)

\* A request was rejected as queue-full and the gateway has moved on since.
C3_Witness ==
  \E i, j \in Ids :
    /\ i < j
    /\ settlement[i] = Rejected(QueueFullError)
    /\ phase[j] = "executing"

\* C4: no submission has resolve or reject called for it more than once in
\* total, whichever of the three settling paths is taken.
C4_SettledAtMostOnce ==
  \A i \in Ids : resolveCalls[i] + rejectCalls[i] <= 1

\* All three settling paths have been taken in one run.
C4_Witness ==
  /\ \E i \in Ids : resolveCalls[i] = 1 /\ settlement[i][1] = "resolved"
  /\ \E i \in Ids : settlement[i] \in {Rejected(e) : e \in WorkErrors}
  /\ \E i \in Ids : settlement[i] = Rejected(QueueTimeoutError)
  /\ \E i \in Ids : settlement[i] = Rejected(QueueFullError)

\* C5: if every started unit of work eventually settles, every admitted
\* request (executing or queued) eventually has its promise settled.
C5_AdmittedEventuallySettled ==
  \A i \in 1..MaxFairSubmissions :
    (phase[i] \in {"queued", "executing"}) ~> (settlement[i] # Pending)

\* Request 2 waited in a full queue (request 3 was turned away) and has been
\* settled by its work after the first request finished.
C5_Witness ==
  /\ maxConcurrentRequests = 1
  /\ maxQueueSize = 1
  /\ settlement[3] = Rejected(QueueFullError)
  /\ phase[1] = "finished"
  /\ phase[2] = "finished"
  /\ resolveCalls[2] = 1

\* C6: a queued request that leaves the queue after waiting more than the
\* 30 s queue timeout is rejected with 'Request timed out in queue', and its
\* work function is never invoked.
C6_ExpiredNeverExecuted ==
  /\ [][\A i \in Ids :
          (/\ phase[i] = "queued"
           /\ phase'[i] # "queued"
           /\ now - TimestampOf(i) > QueueTimeoutMs)
          => (/\ settlement'[i] = Rejected(QueueTimeoutError)
              /\ phase'[i] = "finished"
              /\ invocations'[i] = 0)]_vars
  /\ [](\A i \in Ids : settlement[i] = Rejected(QueueTimeoutError)
                         => invocations[i] = 0 /\ workState[i] = NotStarted)

\* A request timed out in the queue while a slot is free.
C6_Witness ==
  /\ currentRequests < maxConcurrentRequests
  /\ \E i \in Ids : settlement[i] = Rejected(QueueTimeoutError)

\* C7: work starts in submission order: the queue holds requests in
\* submission order, the sequence of started requests is increasing, and no
\* request has started while an earlier submission is still queued.
C7_FifoStart ==
  /\ Increasing(QueueIds)
  /\ Increasing(startOrder)
  /\ \A i, j \in Ids : i < j /\ phase[i] = "queued" => invocations[j] = 0

\* Requests 3 and 4 waited in a full queue (request 5 was turned away) and
\* were then started in that order.
C7_Witness ==
  /\ maxConcurrentRequests = 2
  /\ maxQueueSize = 2
  /\ settlement[5] = Rejected(QueueFullError)
  /\ startOrder = <<1, 2, 3, 4>>

\* C8: after K submissions none of which completes, the first
\* min(K, maxConcurrentRequests) are executing, the next up to maxQueueSize
\* are queued in order, and all further ones are rejected as queue-full;
\* with 3 and 10, 15 submissions give 3 running, 10 queued, 2 rejected.
C8_Burst ==
  LET K == submitted
      running == Min(K, maxConcurrentRequests)
      queued == Min(Max(K - maxConcurrentRequests, 0), maxQueueSize)
      RejectedFull == {i \in Ids : settlement[i] = Rejected(QueueFullError)}
  IN /\ currentRequests = running
     /\ Executing = 1..running
     /\ QueueIds = [k \in 1..queued |-> running + k]
     /\ RejectedFull = (running + queued + 1)..K
     /\ (maxConcurrentRequests = 3 /\ maxQueueSize = 10 /\ K = 15)
          => (/\ currentRequests = 3
              /\ Len(requestQueue) = 10
              /\ Cardinality(RejectedFull) = 2)

\* The default configuration after 15 submissions.
C8_Witness ==
  /\ maxConcurrentRequests = DefaultMaxConcurrent
  /\ maxQueueSize = DefaultMaxQueueSize
  /\ submitted = 15
  /\ Cardinality({i \in Ids : settlement[i] = Rejected(QueueFullError)}) = 2

\* C9: a submission made while capacity is available has its work invoked
\* in the same step, and the promise of every request whose work ran is
\* settled with exactly the work's outcome: resolved with the value it
\* returned, rejected with the error it threw.
C9_OutcomeUnchanged ==
  /\ [][(SubmitStep /\ currentRequests < maxConcurrentRequests)
        => (/\ invocations'[submitted'] = 1
            /\ phase'[submitted'] # "queued")]_vars
  /\ [](\A i \in Ids :
          (phase[i] = "finished" /\ invocations[i] > 0)
          => /\ workState[i][1] = "returned"
                  => settlement[i] = Resolved(workState[i][2])
             /\ workState[i][1] = "threw"
                  => settlement[i] = Rejected(workState[i][2]))

\* The first submission found capacity and was resolved with X2, another
\* immediate one was rejected with the error its work threw.
C9_Witness ==
  /\ settlement[1] = Resolved(<<"X2">>)
  /\ \E i \in Ids :
       /\ i <= maxConcurrentRequests
       /\ settlement[i] \in {Rejected(e) : e \in WorkErrors}

Has(seq, x) == \E k \in 1..Len(seq) : seq[k] = x

\* C10: inside a classifyImage unit of work, when isAvailable() or
\* isModelAvailable() answered false the unit ends by throwing an error whose
\* message carries the descriptive text, the caller's promise is rejected
\* with that error, and the unit never issues POST /api/generate.
C10_PreflightFailure ==
  \A i \in Ids :
    LET rs == responses[i]
        serviceDown == Len(rs) >= 1 /\ ~isAvailable(rs[1])
        modelMissing == Len(rs) >= 2 /\ isAvailable(rs[1])
                          /\ ~isModelAvailable(rs[2])
        text == IF serviceDown THEN ServiceUnavailableMsg
                               ELSE ModelUnavailableMsg
    IN (serviceDown \/ modelMissing)
       => /\ workState[i][1] = "threw"
          /\ Includes(workState[i][2].message, text)
          /\ ~Has(requests[i], PostGenerate)
          /\ phase[i] = "finished" => settlement[i] = Rejected(workState[i][2])

\* One unit was rejected because the service was down, the other because
\* the model was missing.
C10_Witness ==
  /\ \E i \in Ids : /\ settlement[i][1] = "rejected"
                    /\ Len(responses[i]) = 1
                    /\ Includes(settlement[i][2].message, ServiceUnavailableMsg)
  /\ \E i \in Ids : /\ settlement[i][1] = "rejected"
                    /\ Len(responses[i]) = 2
                    /\ Includes(settlement[i][2].message, ModelUnavailableMsg)

\* The probe behind a status field failed: its GET threw, or answered with a
\* status other than 200.
ProbeFailed(r) == r.kind = "error" \/ r.status # 200

\* C11: getStatus never raises: whatever the two probes end in and whatever
\* the queue holds, the call ends by returning a status object in which
\* service.available is false if the first probe failed and model.available
\* is false if the second probe failed.
C11_StatusNeverRaises ==
  /\ statusCall.outcome[1] # "threw"
  /\ statusCall.pc = "done"
       => /\ statusCall.outcome[1] = "returned"
          /\ ProbeFailed(statusCall.responses[1])
               => ~statusCall.outcome[2].service.available
          /\ Len(statusCall.responses) = 2
          /\ ProbeFailed(statusCall.responses[2])
               => ~statusCall.outcome[2].model.available

\* Both probes failed at once while requests were running and waiting.
C11_Witness ==
  /\ statusCall.pc = "done"
  /\ statusCall.responses[1].kind = "error"
  /\ statusCall.responses[2].kind = "error"
  /\ statusCall.outcome[2].queue.currentRequests > 0
  /\ statusCall.outcome[2].queue.queuedRequests > 0

\* C12: when the probe request fails with an error whose message is M,
\* getStatus returns service.available = false and service.error = M.
C12_ProbeErrorReported ==
  (statusCall.pc = "done" /\ statusCall.responses[1].kind = "error")
  => /\ statusCall.outcome[2].service.available = FALSE
     /\ statusCall.outcome[2].service.error
          = <<statusCall.responses[1].error.message>>

\* C13: isAvailable returns false, and does not throw to its caller, when
\* its GET /api/tags fails with a network error, times out, or answers with a
\* status other than 200; it returns true only for a 200 response.
C13_IsAvailable ==
  statusCall.pc \in {"isModelAvailable", "done"}
  => LET r == statusCall.responses[1]
     IN /\ r.kind = "error" => ~statusCall.isAvailable
        /\ (r.kind = "response" /\ r.status # 200) => ~statusCall.isAvailable
        /\ statusCall.isAvailable => (r.kind = "response" /\ r.status = 200)
        /\ (r.kind = "response" /\ r.status = 200) => statusCall.isAvailable
        /\ Len(statusCall.responses) >= 1
        /\ statusCall.outcome[1] # "threw"

\* The probe was answered with status 204 and isAvailable said false; the
\* caller went on to its next await.
C13_Witness ==
  /\ statusCall.pc = "isModelAvailable"
  /\ statusCall.responses[1].kind = "response"
  /\ statusCall.responses[1].status = 204
  /\ ~statusCall.isAvailable

\* The POST came back at transport level with a payload that is not valid:
\* no body, a status other than 200, no 'response' field, or a null or
\* undefined 'response' field.
InvalidPayload(r) ==
  /\ r.kind = "response"
  /\ \/ r.body = NoData
     \/ r.status # 200
     \/ ~r.body[1].hasResponse
     \/ r.body[1].response[1] \in {"null", "undefined"}

\* The POST of call id has been answered, with r.
GenerateAnswered(id) == Len(responses[id]) = 3

\* C14: a classifyImage call whose POST returned at transport level with an
\* invalid payload ends in a rejection: its work function throws, the call
\* is never resolved, and once it has settled it is rejected with what the
\* work function threw.
C14_InvalidPayloadRejected ==
  \A id \in Ids :
    (GenerateAnswered(id) /\ InvalidPayload(responses[id][3]))
    => /\ workState[id][1] = "threw"
       /\ settlement[id][1] # "resolved"
       /\ phase[id] = "finished"
            => /\ settlement[id][1] = "rejected"
               /\ settlement[id][2] = workState[id][2]

\* A call answered 201 with a body has been rejected.
C14_Witness ==
  \E id \in Ids :
    /\ GenerateAnswered(id)
    /\ responses[id][3].kind = "response"
    /\ responses[id][3].status = 201
    /\ phase[id] = "finished"
    /\ settlement[id][1] = "rejected"

\* The kind of an error the caller receives.  Every error the service
\* throws is a plain Error carrying nothing but its message, so the kind is
\* the fixed text the message starts with: one per rule of
\* handleNetworkError.
ErrorKind(e) == Head(e.message)

\* The kinds the error path gives to the transport failures of the POST.
TransportKinds ==
  { ErrorKind(catchInWork(Threw(r.error))[2]) :
      r \in {x \in GenerateOutcomes : x.kind = "error"} }

\* C15: the error a caller of classifyImage receives for a payload-validation
\* failure is of a kind that no transport failure of the POST is mapped to.
C15_ValidationKindDistinct ==
  \A id \in Ids :
    (/\ GenerateAnswered(id)
     /\ InvalidPayload(responses[id][3])
     /\ settlement[id][1] = "rejected")
    => ErrorKind(settlement[id][2]) \notin TransportKinds

\* The error is matched by a rule of handleNetworkError whose message is a
\* fixed text: one of the code rules, HTTP 404 or HTTP >= 500.
FixedRule(e) ==
  \/ e.code \in {"ETIMEDOUT", "TIMEOUT", "ECONNREFUSED", "ENOTFOUND",
                 "ENETUNREACH"}
  \/ e.status = 404
  \/ e.status >= 500

\* Both errors have been handled.
BothHandled == call.fn = "handleNetworkError" /\ Len(call.results) = 2

\* C16 as stated: two transport errors with the same code and HTTP status
\* but different raw text or response data give the caller the same message.
C16_SameConditionSameMessage ==
  (/\ BothHandled
   /\ call.args[1].code = call.args[2].code
   /\ call.args[1].status = call.args[2].status)
  => call.results[1][2].message = call.results[2][2].message

\* C16, amended: two transport errors with the same code and HTTP status
\* that are matched by a code rule, HTTP 404 or HTTP >= 500 give the caller
\* the same one-piece message, which contains nothing of the raw text or
\* data; an HTTP 400 error not matched by a code rule gives 'Ollama API
\* error: ' followed by the response data, and an unmatched error gives
\* 'Ollama service error: ' followed by the raw message.
C16_FixedUnlessEmbedded ==
  (/\ BothHandled
   /\ call.args[1].code = call.args[2].code
   /\ call.args[1].status = call.args[2].status)
  => \A i \in 1..2 :
       LET e == call.args[i]
           m == call.results[i][2].message
       IN /\ FixedRule(e)
               => /\ m = call.results[3 - i][2].message
                  /\ Len(m) = 1
                  /\ ~Includes(m, e.message)
                  /\ e.data # NoData => ~Includes(m, e.data)
                  /\ ~Includes(m, <<ToString(e.data)>>)
          /\ (~FixedRule(e) /\ e.status = 400)
               => m = <<"Ollama API error: ", ToString(e.data)>>
          /\ (~FixedRule(e) /\ e.status # 400)
               => m = <<"Ollama service error: ">> \o e.message

\* Two connection-refused errors with different raw messages were handled
\* and gave the same message.
C16_Witness ==
  /\ BothHandled
  /\ call.args[1].code = "ECONNREFUSED"
  /\ call.args[2].code = "ECONNREFUSED"
  /\ call.args[1].status = call.args[2].status
  /\ call.args[1].message # call.args[2].message
  /\ call.results[1] = call.results[2]

\* C17: handleNetworkError never returns normally: for every error it
\* throws the error of the first matching rule in the order code
\* ETIMEDOUT/TIMEOUT, ECONNREFUSED, ENOTFOUND, ENETUNREACH, HTTP 404,
\* HTTP 400, HTTP >= 500, and otherwise 'Ollama service error: ' followed by
\* the original message.
C17_FirstMatchingRule ==
  \A i \in 1..Len(call.results) :
    LET e == call.args[i]
        m == call.results[i][2].message
        r1 == e.code \in {"ETIMEDOUT", "TIMEOUT"}
        r2 == e.code = "ECONNREFUSED"
        r3 == e.code = "ENOTFOUND"
        r4 == e.code = "ENETUNREACH"
        r5 == e.status = 404
        r6 == e.status = 400
        r7 == e.status >= 500
    IN /\ call.results[i][1] = "threw"
       /\ r1 => m = <<"Request to Ollama service timed out. The image might be too large or complex, or the service may be overloaded.">>
       /\ (~r1 /\ r2)
            => m = <<"Cannot connect to Ollama service. Please ensure Ollama is running and accessible at the configured URL.">>
       /\ (~r1 /\ ~r2 /\ r3)
            => m = <<"Ollama service URL not found. Please check your OLLAMA_API_URL configuration.">>
       /\ (~r1 /\ ~r2 /\ ~r3 /\ r4)
            => m = <<"Network unreachable. Please check your network connection and Ollama service configuration.">>
       /\ (~r1 /\ ~r2 /\ ~r3 /\ ~r4 /\ r5)
            => m = <<"Ollama API endpoint not found. Please check your Ollama installation and version.">>
       /\ (~r1 /\ ~r2 /\ ~r3 /\ ~r4 /\ ~r5 /\ r6)
            => m = <<"Ollama API error: ", ToString(e.data)>>
       /\ (~r1 /\ ~r2 /\ ~r3 /\ ~r4 /\ ~r5 /\ ~r6 /\ r7)
            => m = <<"Ollama service is experiencing internal issues. Please try again later.">>
       /\ (~r1 /\ ~r2 /\ ~r3 /\ ~r4 /\ ~r5 /\ ~r6 /\ ~r7)
            => m = <<"Ollama service error: ">> \o e.message

\* An error matched by two rules (code ECONNREFUSED and HTTP 404) was
\* handled by the earlier one.
C17_Witness ==
  \E i \in 1..Len(call.results) :
    /\ call.args[i].code = "ECONNREFUSED"
    /\ call.args[i].status = 404
    /\ call.results[i][1] = "threw"
    /\ Head(call.results[i][2].message) = "Cannot connect to Ollama service. Please ensure Ollama is running and accessible at the configured URL."

\* The request was turned away by the gateway itself.
TurnedAway(id) ==
  settlement[id] \in {Rejected(QueueFullError), Rejected(QueueTimeoutError)}

\* C18: the gateway never retries: the work function of a submission is
\* invoked at most once; not at all while the request is unsent or queued or
\* when it was rejected as queue-full or timed out in the queue; exactly
\* once when it is executing or was settled by its work, and then a failure
\* of the work is the caller's final outcome.
C18_NeverRetries ==
  \A id \in Ids :
    /\ invocations[id] <= 1
    /\ phase[id] \in {"unsent", "queued"} => invocations[id] = 0
    /\ TurnedAway(id) => invocations[id] = 0
    /\ phase[id] = "executing" => invocations[id] = 1
    /\ (phase[id] = "finished" /\ ~TurnedAway(id))
         => /\ invocations[id] = 1
            /\ workState[id][1] \in {"returned", "threw"}
            /\ workState[id][1] = "threw"
                 => settlement[id] = Rejected(workState[id][2])
            /\ workState[id][1] = "returned"
                 => settlement[id] = Resolved(workState[id][2])

\* One request failed in its work and was rejected with that failure after
\* a single invocation, and another timed out in the queue without any.
C18_Witness ==
  /\ \E id \in Ids :
       /\ phase[id] = "finished"
       /\ workState[id][1] = "threw"
       /\ settlement[id] = Rejected(workState[id][2])
       /\ invocations[id] = 1
  /\ \E id \in Ids :
       /\ settlement[id] = Rejected(QueueTimeoutError)
       /\ invocations[id] = 0

\* C19: when the work function of a classifyImage call returns a result,
\* its processingTime is round(total_duration / 1000000) if the response
\* to the POST carries total_duration, and the time elapsed since the POST
\* was sent only if the response has no total_duration.
C19_ProcessingTime ==
  [][\A id \in Ids :
       (workState[id][1] = "generate" /\ workState'[id][1] = "returned")
       => LET r == responses'[id][3]
              duration == r.body[1].total_duration
              startTime == workState[id][3]
          IN workState'[id][2].processingTime
               = IF duration # <<>> THEN RoundToMs(duration[1])
                                    ELSE now - startTime]_vars

\* The executing request id completes in this step: executeRequest resumes
\* after its await, settles the caller and runs its finally block.
Completes(id) ==
  /\ phase[id] = "executing"
  /\ workState[id][1] \in {"returned", "threw"}
  /\ phase'[id] = "finished"

\* The queued request has waited longer than the queue timeout.
Expired(item) == now - item.timestamp > QueueTimeoutMs

\* What a completion does to the counter and the queue.
DrainsAfterCompletion ==
  \A id \in Ids :
    Completes(id)
    => LET q == requestQueue
           k == Len(q) - Len(requestQueue')
           left == {j \in 1..k : phase'[q[j].id] = "executing"}
       IN /\ k >= 0
          /\ requestQueue' = SubSeq(q, k + 1, Len(q))
          /\ \A j \in 1..k :
               IF Expired(q[j])
                 THEN /\ settlement'[q[j].id] = Rejected(QueueTimeoutError)
                      /\ invocations'[q[j].id] = 0
                      /\ phase'[q[j].id] = "finished"
                 ELSE /\ invocations'[q[j].id] = 1
                      /\ phase'[q[j].id] \in {"executing", "finished"}
          /\ \A j \in (k + 1)..Len(q) :
               /\ phase'[q[j].id] = "queued"
               /\ settlement'[q[j].id] = Pending
          /\ (\E j \in 1..Len(q) : ~Expired(q[j]))
               => \E j \in 1..k : ~Expired(q[j])
          /\ currentRequests' = currentRequests - 1 + Cardinality(left)
          /\ \/ Len(requestQueue') = 0
             \/ /\ currentRequests' = currentRequests
                /\ Cardinality(left) = 1

\* With 3 running and 10 queued, none expired: once some of the 3 have
\* completed, as many queued requests have started and the rest still wait.
DrainExample ==
  (DefaultConfig /\ submitted = ExampleBurst)
  => LET done == {i \in 1..DefaultMaxConcurrent : phase[i] = "finished"}
         n == Cardinality(done)
     IN /\ currentRequests = DefaultMaxConcurrent
        /\ Len(requestQueue) = DefaultMaxQueueSize - n
        /\ \A i \in (DefaultMaxConcurrent + 1)..(DefaultMaxConcurrent + n) :
             phase[i] = "executing"
        /\ \A i \in (DefaultMaxConcurrent + n + 1)..ExampleBurst :
             phase[i] = "queued"

\* C20: each completion of an executing unit, success or failure,
\* decrements currentRequests and drains the queue in the same step: expired
\* heads are rejected without being executed or counted, the first
\* non-expired head is admitted, and afterwards either the queue is empty or
\* one queued request has started and currentRequests is back at its
\* previous value; with 3 running and 10 queued, completing the 3 starts the
\* next 3 and leaves 7 queued.
C20_CompletionDrains == [][DrainsAfterCompletion]_vars /\ []DrainExample

\* The 3 requests started first have completed, one of them by failing; the
\* next 3 are running and 7 are left in the queue.
C20_Witness ==
  /\ DefaultConfig
  /\ \A i \in 1..3 : phase[i] = "finished"
  /\ settlement[1][1] = "rejected"
  /\ settlement[2][1] = "resolved"
  /\ \A i \in 4..6 : phase[i] = "executing"
  /\ currentRequests = 3
  /\ Len(requestQueue) = 7

\* The requests whose executeRequest has counted them in and has not yet
\* run its finally block: their work is running, or has settled and
\* executeRequest is about to resume.
InFlight == {id \in Ids : phase[id] = "executing"}

\* The requests whose executeRequest has run to its end.
Executed == {id \in Ids : phase[id] = "finished" /\ invocations[id] = 1}

\* C21: currentRequests equals the number of units of work that have started
\* and whose executeRequest has not yet settled them: the increments (one
\* per work started) less the decrements (one per work finished, whether it
\* returned, threw synchronously or rejected); so once no work is
\* outstanding and the queue is empty, currentRequests is 0.
C21_CountsInFlight ==
  /\ currentRequests = Cardinality(InFlight)
  /\ currentRequests = Len(startOrder) - Cardinality(Executed)
  /\ (InFlight = {} /\ requestQueue = <<>>) => currentRequests = 0

\* Three works have ended, one by returning and one by failing, nothing is
\* outstanding and the counter is 0.
C21_Witness ==
  /\ InFlight = {}
  /\ requestQueue = <<>>
  /\ currentRequests = 0
  /\ \E id \in Executed : workState[id][1] = "returned"
  /\ \E id \in Executed :
       workState[id][1] = "threw" /\ rejectCalls[id] = 1
  /\ Cardinality(Executed) >= 3

\* Some executing request completes in this step.
CompletionStep == \E c \in Ids : Completes(c)

\* C22: the queue timeout is evaluated only when processQueue pops a request
\* after an in-flight request completes: a request is rejected with
\* 'Request timed out in queue' only in a completion step, only if it was
\* queued and had waited more than 30 s; in every other step every queued
\* request, expired or not, stays in requestQueue unsettled.
C22_LazyEviction ==
  [][\A id \in Ids :
       /\ (settlement[id] # Rejected(QueueTimeoutError)
           /\ settlement'[id] = Rejected(QueueTimeoutError))
            => /\ CompletionStep
               /\ phase[id] = "queued"
               /\ now - TimestampOf(id) > QueueTimeoutMs
       /\ (phase[id] = "queued" /\ ~CompletionStep)
            => /\ phase'[id] = "queued"
               /\ settlement'[id] = Pending
               /\ id \in {requestQueue'[k].id : k \in 1..Len(requestQueue')}]_vars

\* A request has waited 45 s and is still queued and unsettled.
C22_Witness ==
  \E k \in 1..Len(requestQueue) :
    /\ now - requestQueue[k].timestamp >= QueueTimeoutMs + TickMs
    /\ phase[requestQueue[k].id] = "queued"
    /\ settlement[requestQueue[k].id] = Pending

\* The HTTP requests one classifyImage unit of work issues, in order.
ClassifyRequests == <<GetTags, GetTags, PostGenerate>>

\* seq is an initial part of full.
IsPrefix(seq, full) ==
  Len(seq) <= Len(full) /\ seq = SubSeq(full, 1, Len(seq))

\* Nothing is issued for a request that has not been admitted to run, the
\* probes come before the POST, and no request is answered before it was
\* issued.
ProbesOnlyOnceAdmitted ==
  \A id \in Ids :
    /\ phase[id] \in {"unsent", "queued"}
         => (requests[id] = <<>> /\ responses[id] = <<>>)
    /\ IsPrefix(requests[id], ClassifyRequests)
    /\ Len(responses[id]) <= Len(requests[id])

\* A request is issued only in a step that leaves its unit executing; the
\* first probe goes out in the step that admits the request.
IssuedWhileExecuting ==
  \A id \in Ids :
    requests'[id] # requests[id]
    => /\ phase'[id] = "executing"
       /\ Len(requests'[id]) = Len(requests[id]) + 1
       /\ requests[id] = <<>> <=> phase[id] \in {"unsent", "queued"}

\* C23: for a request that was enqueued, no probe (GET /api/tags) is issued
\* on its behalf between its submission and its dequeue; both probes are
\* issued after it is admitted to run and before its POST /api/generate.
C23_ProbesAtExecution ==
  []ProbesOnlyOnceAdmitted /\ [][IssuedWhileExecuting]_vars

\* A request has been waiting in the queue for some time without any probe,
\* while the request ahead of it has issued both probes and its POST.
C23_Witness ==
  \E k \in 1..Len(requestQueue) :
    /\ now > requestQueue[k].timestamp
    /\ requests[requestQueue[k].id] = <<>>
    /\ \E id \in Ids : requests[id] = ClassifyRequests

\* The number of GET /api/tags requests issued for request id.
ProbesIssued(id) ==
  Cardinality({k \in 1..Len(requests[id]) : requests[id][k] = GetTags})

\* C24: one pre-flight issues a single GET /api/tags and both answers are
\* derived from that one response: a unit that went on to its POST had the
\* model listed in the response that answered isAvailable().
C24_SingleProbe ==
  \A id \in Ids :
    /\ ProbesIssued(id) <= 1
    /\ Has(requests[id], PostGenerate)
         => /\ isAvailable(responses[id][1])
            /\ isModelAvailable(responses[id][1])

\* The status getStatus returned.
StatusReturned == statusCall.outcome[2]

\* getStatus returns in this step.
StatusReturns == statusCall.pc # "done" /\ statusCall'.pc = "done"

\* u is x / y * 100 rounded to the nearest integer, halves upwards (y > 0).
IsRoundedPercent(u, x, y) ==
  2 * y * u <= 200 * x + y /\ 200 * x + y < 2 * y * (u + 1)

\* C25: the utilization getStatus reports is round(currentRequests /
\* maxConcurrentRequests * 100) for the currentRequests of the state it
\* returns in, lies between 0 and 100, and is 0 when no request is in
\* flight.
C25_Utilization ==
  /\ [][StatusReturns
          => /\ statusCall'.outcome[2].queue.currentRequests = currentRequests
             /\ Len(statusCall'.outcome[2].queue.queueUtilization) = 2]_vars
  /\ [](statusCall.pc = "done"
          => LET u == StatusReturned.queue.queueUtilization[1]
                 c == StatusReturned.queue.currentRequests
             IN /\ StatusReturned.queue.queueUtilization[2] = "%"
                /\ IsRoundedPercent(u, c, maxConcurrentRequests)
                /\ u >= 0 /\ u <= 100
                /\ c = 0 => u = 0)

\* With 2 of 3 slots taken getStatus reported 67%.
C25_Witness ==
  /\ statusCall.pc = "done"
  /\ maxConcurrentRequests = 3
  /\ StatusReturned.queue.currentRequests = 2
  /\ StatusReturned.queue.queueUtilization = <<67, "%">>

\* Call id gets the answer to its pending HTTP request in this step.
Answered(id) == Len(responses'[id]) = Len(responses[id]) + 1
LastAnswer(id) == responses'[id][Len(responses'[id])]

\* The queue wait runs from enqueue to dequeue only: a request that leaves
\* the queue is rejected as timed out exactly if it was submitted more than
\* 30 s ago, and an executing request is never rejected as timed out in the
\* queue.
QueueWaitOnly ==
  \A id \in Ids :
    /\ (phase[id] = "queued" /\ phase'[id] # "queued")
         => (settlement'[id] = Rejected(QueueTimeoutError)
               <=> now - timeline[id].submitted > QueueTimeoutMs)
    /\ phase[id] = "executing" => settlement'[id] # Rejected(QueueTimeoutError)

\* Each probe runs against its own 5 s and the POST against its own 60 s,
\* counted from the sending of that request; a POST answered within its
\* 60 s gives a result however long ago the call was submitted.
OwnTimers ==
  \A id \in Ids :
    Answered(id)
    => LET timedOut == LastAnswer(id).kind = "error"
           elapsed == now - timeline[id].sent
       IN IF workState[id][1] = "generate"
            THEN /\ timedOut <=> elapsed >= InferenceTimeoutMs
                 /\ timeline[id].sent = workState[id][3]
                 /\ ~timedOut => /\ workState'[id][1] = "returned"
                                 /\ workState'[id][2].processingTime = elapsed
            ELSE /\ timedOut <=> elapsed >= ProbeTimeoutMs
                 /\ ~timedOut => workState'[id][1] # "threw"

C27_WorkConserving ==
  Len(requestQueue) > 0 => currentRequests = maxConcurrentRequests

\* Requests have completed, a request is waiting and every slot is taken.
C27_Witness ==
  /\ Len(requestQueue) > 0
  /\ currentRequests = maxConcurrentRequests
  /\ Cardinality(Executed) >= 2
  /\ \E id \in Ids : settlement[id] = Rejected(QueueTimeoutError)

\* Every slot is taken and the queue is full of entries that have all
\* waited longer than the queue timeout.
FullOfExpired ==
  /\ currentRequests = maxConcurrentRequests
  /\ Len(requestQueue) = maxQueueSize
  /\ \A k \in 1..Len(requestQueue) : Expired(requestQueue[k])

\* C28: queue capacity counts expired entries: a submission made while every
\* slot is taken and the queue is full is rejected as queue-full even if
\* every queued entry has waited longer than 30 s; the expired entries stay
\* queued and unsettled.
C28_ExpiredCountAsQueued ==
  [][(SubmitStep /\ FullOfExpired)
       => /\ settlement'[submitted + 1] = Rejected(QueueFullError)
          /\ invocations'[submitted + 1] = 0
          /\ requestQueue' = requestQueue
          /\ \A k \in 1..Len(requestQueue) :
               settlement'[requestQueue[k].id] = Pending]_vars

\* The latest submission was rejected as queue-full; the queue is full of
\* expired entries and every slot is taken.
C28_Witness ==
  /\ FullOfExpired
  /\ submitted > 0
  /\ settlement[submitted] = Rejected(QueueFullError)
  /\ \A k \in 1..Len(requestQueue) :
       settlement[requestQueue[k].id] = Pending

\* The endpoint has finished request id; the gateway call behind it failed.
Finished(id) == endpoint[id].pc = "done"
GatewayFailed(id) == settlement[id][1] = "rejected"

\* C29: after the classify endpoint finishes a request whose gateway call
\* failed, the record it created is persisted with status 'error' and the
\* error message; no finished request leaves its record in status
\* 'processing'.
C29_ErrorPersisted ==
  \A id \in Ids :
    Finished(id) =>
      /\ endpoint[id].row[1].status # "processing"
      /\ GatewayFailed(id) =>
           /\ endpoint[id].row[1].status = "error"
           /\ endpoint[id].row[1].error_message = <<settlement[id][2].message>>

\* The POST /api/generate of request id failed with a timeout code.
InferenceTimedOut(id) ==
  /\ Len(responses[id]) = 3
  /\ responses[id][3].kind = "error"
  /\ responses[id][3].error.code \in {"ETIMEDOUT", "TIMEOUT"}

\* C30: when the inference call fails with a timeout (error code ETIMEDOUT or
\* TIMEOUT) the classify endpoint answers 408 'Request timeout'; it answers
\* 503 'Service unavailable' only for gateway errors that are not timeouts.
C30_TimeoutIs408 ==
  \A id \in Ids :
    Finished(id) =>
      /\ InferenceTimedOut(id) =>
           /\ endpoint[id].reply[1].status = 408
           /\ endpoint[id].reply[1].error = <<"Request timeout">>
      /\ endpoint[id].reply[1].status = 503 =>
           /\ GatewayFailed(id)
           /\ ~InferenceTimedOut(id)

====
